---- MODULE Spec2Model ----
(***************************************************************************)
(* A model of src/main.py: the Flask handler process_youtube_url, the      *)
(* start-up construction of the ACRCloud recognizer, and the pure mapper   *)
(* map_acr_match_to_soundtrace_format.                                     *)
(*                                                                         *)
(* Python values are encoded as follows.  An optional value (a dict key    *)
(* that may be missing, or a value that may be None) is a sequence of      *)
(* length at most one: << >> is missing/None and <<v>> is v.  A formatted  *)
(* string f"prefix{x}" is the pair <<"prefix", x>>.  An exception is a     *)
(* record [cls, code]; only HTTPError instances have a code attribute.     *)
(***************************************************************************)
EXTENDS Integers, Sequences, FiniteSets, TLC

\* Bounds of the model.
NumRequests == 2
NumPaths == 2
MaxMusic == 1
MaxArtists == 2

Requests == 1..NumRequests
\* The names tempfile can draw for a temporary file.
Paths == 1..NumPaths

VARIABLES
    acr_config,       \* which of host / access_key / access_secret are set
    acr_recognizer,   \* "client" or "none" (None)
    fs,               \* path -> 0 (no file), r (file created by in-flight
                      \*   request r), -1 (file left behind by a finished one)
    pc,               \* per request: position in the handler
    data,             \* per request: the JSON body received
    streams,          \* per request: audio-only streams yt.streams offers
    audio_stream,     \* per request: the selected stream, "none" for None
    temp_file_path,   \* per request: 0 for None, else a path
    calls,            \* per request: external calls made, in order
    raised,           \* per request: << >> or <<[exc, at]>>, the exception
                      \*   raised inside the try block and where
    scan,             \* per request: << >> or <<s>>, the string returned by
                      \*   recognize_by_file
    response,         \* per request: the response decided
    cleanup_error,    \* per request: os.remove failed and was logged
    acr_match,        \* input of the mapper (specification SpecMap)
    mapped            \* << >> or <<m>>, the mapper's result

reqvars == <<pc, data, streams, audio_stream, temp_file_path, calls, raised,
             scan, response, cleanup_error>>
\* What no request changes.
static == <<acr_config, acr_recognizer, acr_match, mapped>>
vars == <<acr_config, acr_recognizer, fs, pc, data, streams, audio_stream,
          temp_file_path, calls, raised, scan, response, cleanup_error,
          acr_match, mapped>>

----------------------------------------------------------------------------
\* Optional values.
Get(opt, default) == IF opt = << >> THEN default ELSE opt[1]

----------------------------------------------------------------------------
(* map_acr_match_to_soundtrace_format                                      *)

ArtistEntries == {[name |-> << >>], [name |-> <<"Artist A">>]}

ArtistLists == UNION {[1..n -> ArtistEntries] : n \in 0..MaxArtists}

SpotifyArtistLists ==
    {<< >>, <<[id |-> << >>]>>, <<[id |-> <<"sp-artist">>]>>}

SpotifyTracks ==
    {[id |-> << >>, name |-> << >>],          \* {} : an empty dict
     [id |-> << >>, name |-> <<"n">>],
     [id |-> <<"sp-track">>, name |-> <<"n">>]}

SpotifyDicts ==
    [artists : {<< >>} \cup {<<l>> : l \in SpotifyArtistLists},
     track : {<< >>} \cup {<<t>> : t \in SpotifyTracks}]

YoutubeDicts == {[vid |-> << >>], [vid |-> <<"yt-vid">>]}

ExternalMetadata ==
    [spotify : {<< >>} \cup {<<s>> : s \in SpotifyDicts},
     youtube : {<< >>} \cup {<<y>> : y \in YoutubeDicts}]

\* The raw music items of an ACRCloud response.
RawMatches ==
    [acrid : {<< >>, <<"acr-1">>},
     title : {<< >>, <<"Song">>},
     artists : {<< >>} \cup {<<l>> : l \in ArtistLists},
     album : {<< >>, <<[name |-> << >>]>>, <<[name |-> <<"Album">>]>>},
     release_date : {<< >>, <<"2020-01-01">>},
     score : {<< >>, <<87>>},
     external_metadata : {<< >>} \cup {<<e>> : e \in ExternalMetadata}]

\* The raw match with no key at all.
EmptyMatch ==
    [acrid |-> << >>, title |-> << >>, artists |-> << >>, album |-> << >>,
     release_date |-> << >>, score |-> << >>, external_metadata |-> << >>]

FullMatch ==
    [acrid |-> <<"acr-1">>, title |-> <<"Song">>,
     artists |-> <<(<<[name |-> <<"Artist A">>]>>)>>,
     album |-> <<[name |-> <<"Album">>]>>,
     release_date |-> <<"2020-01-01">>, score |-> <<87>>,
     external_metadata |->
        <<[spotify |-> <<[artists |-> <<(<<[id |-> <<"sp-artist">>]>>)>>,
                          track |-> <<[id |-> <<"sp-track">>,
                                       name |-> <<"n">>]>>]>>,
           youtube |-> <<[vid |-> <<"yt-vid">>]>>]>>]

\* Python truthiness of the dicts and lists the mapper tests.
TruthyList(opt) == opt # << >> /\ opt[1] # << >>
TruthyTrack(opt) == opt # << >> /\ (opt[1].id # << >> \/ opt[1].name # << >>)

\* acr_match.get('external_metadata', {}).get('spotify', {})
SpotifyData(m) ==
    IF m.external_metadata = << >> THEN << >>
    ELSE m.external_metadata[1].spotify

\* acr_match.get('external_metadata', {}).get('youtube', {})
YoutubeData(m) ==
    IF m.external_metadata = << >> THEN << >>
    ELSE m.external_metadata[1].youtube

SpotifyArtistId(m) ==
    LET sd == SpotifyData(m)
    IN  IF sd # << >> /\ TruthyList(sd[1].artists)
        THEN sd[1].artists[1][1].id
        ELSE << >>

SpotifyTrackId(m) ==
    LET sd == SpotifyData(m)
    IN  IF sd # << >> /\ TruthyTrack(sd[1].track)
        THEN sd[1].track[1].id
        ELSE << >>

YoutubeVideoId(m) ==
    LET yd == YoutubeData(m)
    IN  IF yd # << >> THEN yd[1].vid ELSE << >>

\* ', '.join(names): the names with the separator between them.
RECURSIVE Join(_)
Join(names) ==
    IF names = << >> THEN << >>
    ELSE IF Len(names) = 1 THEN names
    ELSE <<names[1], ", ">> \o Join(Tail(names))

ArtistString(m) ==
    LET l == Get(m.artists, << >>)
        joined == Join([i \in 1..Len(l) |-> Get(l[i].name, "Unknown Artist")])
    IN  IF joined = << >> THEN <<"Unknown Artist">> ELSE joined

\* SpotifyLink, had the link been formatted without testing the identifier.
SpotifyLink_Always(id) ==
    <<(<<"https://open.spotify.com/track/", Get(id, "None")>>)>>

\* f"https://.../{id}" if id else None
SpotifyLink(id) ==
    IF id # << >> THEN <<(<<"https://open.spotify.com/track/", id[1]>>)>>
    ELSE << >>

YoutubeLink(id) ==
    IF id # << >> THEN <<(<<"https://www.youtube.com/watch?v=", id[1]>>)>>
    ELSE << >>

map_acr_match_to_soundtrace_format(m) ==
    [id |-> m.acrid,
     title |-> Get(m.title, "Unknown Title"),
     artist |-> ArtistString(m),
     album |-> Get(Get(m.album, [name |-> << >>]).name, "Unknown Album"),
     releaseDate |-> Get(m.release_date, "N/A"),
     matchConfidence |-> Get(m.score, 0),
     spotifyArtistId |-> SpotifyArtistId(m),
     spotifyTrackId |-> SpotifyTrackId(m),
     youtubeVideoId |-> YoutubeVideoId(m),
     youtubeVideoTitle |-> m.title,
     platformLinks |-> [spotify |-> SpotifyLink(SpotifyTrackId(m)),
                        youtube |-> YoutubeLink(YoutubeVideoId(m))]]

----------------------------------------------------------------------------
(* Exceptions and the except clauses of process_youtube_url                *)

\* The pytube exception classes named by the first except clause.
VideoErrors ==
    {"VideoUnavailable", "AgeRestrictedError", "MembersOnly",
     "RecordingUnavailable", "VideoPrivate", "LiveStreamError"}

\* Other PytubeError subclasses (a URL with no video id, retries exhausted).
PytubeErrors == VideoErrors \cup {"PytubeError", "RegexMatchError"}

\* The upstream HTTP statuses an urllib HTTPError may carry.
HttpCodes == {400, 403, 429, 503}

Exc(cls, code) == [cls |-> cls, code |-> code]

\* Everything a call inside the try block may raise.
Exceptions ==
    {Exc(c, 0) : c \in PytubeErrors \cup {"OSError"}}
        \cup {Exc("HTTPError", k) : k \in HttpCodes}

\* hasattr(e, 'code')
HasCode(e) == e.cls = "HTTPError"

\* str(e)
Str(e) == <<e.cls, e.code>>

\* 'urllib' in globals(): main.py never imports urllib.
UrllibInGlobals == FALSE

NoResponse ==
    [by |-> "none", status |-> 0, keys |-> {}, error |-> << >>,
     acrCode |-> 0, acrResponse |-> << >>, matches |-> << >>]

\* jsonify({'error': error}), status
ErrorResponse(status, error) ==
    [by |-> "handler", status |-> status, keys |-> {"error"},
     error |-> error, acrCode |-> 0, acrResponse |-> << >>,
     matches |-> << >>]

\* jsonify({'error': error, 'acrCode': code, 'acrResponse': msg}), status
FailureResponse(status, error, code, msg) ==
    [by |-> "handler", status |-> status,
     keys |-> {"error", "acrCode", "acrResponse"},
     error |-> error, acrCode |-> code, acrResponse |-> msg,
     matches |-> << >>]

\* An exception that leaves the view function: Flask answers with its own
\* 500 Internal Server Error page; the handler built nothing.
UnhandledResponse(cls) ==
    [by |-> "flask", status |-> 500, keys |-> {}, error |-> <<cls>>,
     acrCode |-> 0, acrResponse |-> << >>, matches |-> << >>]

\* ExceptException, had the 429 branch been left out.
ExceptException_NoRateLimit(e) ==
    IF ~HasCode(e) THEN UnhandledResponse("AttributeError")
    ELSE IF e.code = 400
    THEN FailureResponse(502,
             <<"YouTube API Bad Request (HTTP 400): ", Str(e)>>, 9400, Str(e))
    ELSE IF e.code = 403
    THEN FailureResponse(502,
             <<"YouTube API Forbidden (HTTP 403): ", Str(e)>>, 9403, Str(e))
    ELSE FailureResponse(500, <<"Server error: ", Str(e)>>, 9500, Str(e))

\* except Exception as e: ...
ExceptException(e) ==
    IF IF UrllibInGlobals THEN e.cls = "HTTPError" ELSE TRUE
    THEN IF ~HasCode(e) THEN UnhandledResponse("AttributeError")
         ELSE IF e.code = 400
         THEN FailureResponse(502,
                  <<"YouTube API Bad Request (HTTP 400): ", Str(e)>>,
                  9400, Str(e))
         ELSE IF e.code = 403
         THEN FailureResponse(502,
                  <<"YouTube API Forbidden (HTTP 403): ", Str(e)>>,
                  9403, Str(e))
         ELSE IF e.code = 429
         THEN FailureResponse(429,
                  <<"Rate limited by YouTube (HTTP 429). Please try again later.">>,
                  9429, Str(e))
         ELSE FailureResponse(500, <<"Server error: ", Str(e)>>, 9500, Str(e))
    ELSE FailureResponse(500, <<"Server error: ", Str(e)>>, 9500, Str(e))

\* The except clauses, in order.
ExceptClauses(e) ==
    IF e.cls \in VideoErrors
    THEN FailureResponse(404, <<"YouTube video error: ", Str(e)>>, 9001, Str(e))
    ELSE IF e.cls \in PytubeErrors
    THEN FailureResponse(500, <<"YouTube library error: ", Str(e)>>, 9002, Str(e))
    ELSE ExceptException(e)

----------------------------------------------------------------------------
(* The recognition response                                                *)

AcrCodes == {0, 1001, 2004, 3003}
AcrMessages == {<<"Success">>, <<"No result">>}

\* The music items used in responses, and the lists of them.
SampleMatches == {EmptyMatch, FullMatch}
MusicLists == UNION {[1..n -> SampleMatches] : n \in 0..MaxMusic}

\* The JSON documents recognize_by_file may return; status may be missing,
\* and so may its msg.
ScanDocuments ==
    [json : {TRUE},
     status : {<< >>} \cup {<<[code |-> c, msg |-> m]>> :
                               c \in AcrCodes, m \in {<< >>} \cup {<<x>> : x \in AcrMessages}},
     music : MusicLists]

\* A returned string that is not JSON.
NotJson == [json |-> FALSE, status |-> << >>, music |-> << >>]

ScanStrings == ScanDocuments \cup {NotJson}

\* scan_results.get('status', {}).get('code', -1)
AcrStatusCode(s) == IF s.status = << >> THEN -1 ELSE s.status[1].code

\* scan_results.get('status', {}).get('msg', 'Unknown ACRCloud status')
AcrStatusMsg(s) ==
    IF s.status = << >> THEN <<"Unknown ACRCloud status">>
    ELSE IF s.status[1].msg = << >> THEN <<"Unknown ACRCloud status">>
    ELSE s.status[1].msg[1]

MapAll(music) ==
    [i \in 1..Len(music) |-> map_acr_match_to_soundtrace_format(music[i])]

MatchesResponse(status, matches, code, msg) ==
    [by |-> "handler", status |-> status,
     keys |-> {"matches", "acrCode", "acrResponse"},
     error |-> << >>, acrCode |-> code, acrResponse |-> msg,
     matches |-> matches]

AcrErrorResponse(code, msg) ==
    [by |-> "handler", status |-> 500,
     keys |-> {"error", "matches", "acrCode", "acrResponse"},
     error |-> <<"ACRCloud recognition error: ", msg>>,
     acrCode |-> code, acrResponse |-> msg, matches |-> << >>]

\* ScanResponse, had code 1001 fallen into the error branch.
ScanResponse_NoResultIsError(s) ==
    IF AcrStatusCode(s) = 0
    THEN MatchesResponse(200, MapAll(s.music), AcrStatusCode(s), AcrStatusMsg(s))
    ELSE AcrErrorResponse(AcrStatusCode(s), AcrStatusMsg(s))

\* ScanResponse, had the error branch answered with a fixed code and message.
ScanResponse_FixedCode(s) ==
    IF AcrStatusCode(s) = 0
    THEN MatchesResponse(200, MapAll(s.music), AcrStatusCode(s), AcrStatusMsg(s))
    ELSE IF AcrStatusCode(s) = 1001
    THEN MatchesResponse(200, << >>, AcrStatusCode(s), AcrStatusMsg(s))
    ELSE AcrErrorResponse(9500, <<"Unknown ACRCloud status">>)

\* The branches on acr_status_code, for a parsed document.
ScanResponse(s) ==
    IF AcrStatusCode(s) = 0
    THEN MatchesResponse(200, MapAll(s.music), AcrStatusCode(s), AcrStatusMsg(s))
    ELSE IF AcrStatusCode(s) = 1001
    THEN MatchesResponse(200, << >>, AcrStatusCode(s), AcrStatusMsg(s))
    ELSE AcrErrorResponse(AcrStatusCode(s), AcrStatusMsg(s))

----------------------------------------------------------------------------
(* Start-up and the request handler                                        *)

\* The JSON bodies a request may carry: null or {} ; a dict without 'url' ;
\* a JSON array that contains the string 'url' ; a dict whose 'url' matches
\* the video host's URL grammar ; a dict whose 'url' does not.
Bodies == {"null", "no_url", "list_url", "url_ok", "url_bad"}

\* The audio-only streams a video may offer, by bitrate.
AudioStreams == {"a128", "a64"}

\* all([host, access_key, access_secret])
ConfigComplete(c) == c.host /\ c.access_key /\ c.access_secret

\* The module-level construction of acr_recognizer: None when the
\* configuration is incomplete or ACRCloudRecognizer(acr_config) raised.
Recognizers(c) == IF ConfigComplete(c) THEN {"client", "none"} ELSE {"none"}

Put(f, r, v) == [f EXCEPT ![r] = v]

InitRequests ==
    /\ pc = [r \in Requests |-> "idle"]
    /\ data = [r \in Requests |-> "null"]
    /\ streams = [r \in Requests |-> {}]
    /\ audio_stream = [r \in Requests |-> "none"]
    /\ temp_file_path = [r \in Requests |-> 0]
    /\ calls = [r \in Requests |-> << >>]
    /\ raised = [r \in Requests |-> << >>]
    /\ scan = [r \in Requests |-> << >>]
    /\ response = [r \in Requests |-> NoResponse]
    /\ cleanup_error = [r \in Requests |-> FALSE]
    /\ fs = [p \in Paths |-> 0]

Init ==
    /\ acr_config \in [host : BOOLEAN, access_key : BOOLEAN,
                       access_secret : BOOLEAN]
    /\ acr_recognizer \in Recognizers(acr_config)
    /\ InitRequests
    /\ acr_match = EmptyMatch
    /\ mapped = << >>

\* Lines 74-88: the body and configuration checks before the try block.
Receive(r, d) ==
    /\ pc[r] = "idle"
    /\ data' = Put(data, r, d)
    /\ IF d \in {"null", "no_url"}
       THEN /\ response' = Put(response, r,
                   ErrorResponse(400, <<"Missing 'url' in JSON payload">>))
            /\ pc' = Put(pc, r, "done")
       ELSE IF d = "list_url"
       THEN \* data['url'] on a list raises TypeError outside the try block
            /\ response' = Put(response, r, UnhandledResponse("TypeError"))
            /\ pc' = Put(pc, r, "done")
       ELSE IF acr_recognizer = "none"
       THEN /\ response' = Put(response, r,
                   ErrorResponse(500, <<"ACRCloud service not configured on server.">>))
            /\ pc' = Put(pc, r, "done")
       ELSE /\ response' = response
            /\ pc' = Put(pc, r, "try")
    /\ UNCHANGED <<static, fs, streams, audio_stream,
                   temp_file_path, calls, raised, scan, cleanup_error>>

\* An exception raised inside the try block at stage `at`: the matching
\* except clause decides the response, then the finally block runs.
Raise(r, e, at) ==
    /\ raised' = Put(raised, r, <<[exc |-> e, at |-> at]>>)
    /\ response' = Put(response, r, ExceptClauses(e))
    /\ pc' = Put(pc, r, "finally")

\* yt.streams.filter(only_audio=True, abr='128kbps').first()
First128(s) == IF "a128" \in s THEN "a128" ELSE "none"

\* yt.streams.filter(only_audio=True).first()
FirstAudio(s) ==
    IF "a128" \in s THEN "a128" ELSE IF "a64" \in s THEN "a64" ELSE "none"

\* Lines 92-96: YouTube(url) and yt.streams return the streams s.
ExtractReturns(r, s) ==
    /\ pc[r] = "try"
    /\ calls' = Put(calls, r, Append(calls[r], "extract"))
    /\ streams' = Put(streams, r, s)
    /\ audio_stream' = Put(audio_stream, r, First128(s))
    /\ pc' = Put(pc, r, IF First128(s) = "none" THEN "fallback" ELSE "tmpfile")
    /\ UNCHANGED <<static, fs, data, temp_file_path,
                   raised, scan, response, cleanup_error>>

\* Lines 92-96: YouTube(url) or yt.streams raises e.
ExtractRaises(r, e) ==
    /\ pc[r] = "try"
    /\ calls' = Put(calls, r, Append(calls[r], "extract"))
    /\ Raise(r, e, "extract")
    /\ UNCHANGED <<static, fs, data, streams,
                   audio_stream, temp_file_path, scan, cleanup_error>>

\* Lines 97-102: the fallback to any audio stream, and the 404 without one.
Fallback(r) ==
    /\ pc[r] = "fallback"
    /\ audio_stream' = Put(audio_stream, r, FirstAudio(streams[r]))
    /\ IF FirstAudio(streams[r]) = "none"
       THEN /\ response' = Put(response, r,
                   ErrorResponse(404,
                       <<"No audio stream found for the given YouTube URL.">>))
            /\ pc' = Put(pc, r, "finally")
       ELSE /\ response' = response
            /\ pc' = Put(pc, r, "tmpfile")
    /\ UNCHANGED <<static, fs, data, streams,
                   temp_file_path, calls, raised, scan, cleanup_error>>

\* FreshNames, had the name been drawn without the exclusive create.
FreshNames_Any(f) == Paths

\* tempfile creates the file exclusively: under a name no file has.
FreshNames(f) == {p \in Paths : f[p] = 0}

\* Lines 104-105: NamedTemporaryFile(delete=False) creates the file at p.
CreateTemp(r, p) ==
    /\ pc[r] = "tmpfile"
    /\ p \in FreshNames(fs)
    /\ fs' = [fs EXCEPT ![p] = r]
    /\ temp_file_path' = Put(temp_file_path, r, p)
    /\ pc' = Put(pc, r, "download")
    /\ UNCHANGED <<static, data, streams, audio_stream,
                   calls, raised, scan, response, cleanup_error>>

\* Line 104: NamedTemporaryFile raises OSError (no usable name, disk full).
CreateTempRaises(r) ==
    /\ pc[r] = "tmpfile"
    /\ Raise(r, Exc("OSError", 0), "tmpfile")
    /\ UNCHANGED <<static, fs, data, streams,
                   audio_stream, temp_file_path, calls, scan, cleanup_error>>

\* Lines 108-110: audio_stream.download writes the file and returns.
DownloadReturns(r) ==
    /\ pc[r] = "download"
    /\ calls' = Put(calls, r, Append(calls[r], "download"))
    /\ pc' = Put(pc, r, "recognize")
    /\ UNCHANGED <<static, fs, data, streams,
                   audio_stream, temp_file_path, raised, scan, response,
                   cleanup_error>>

\* DownloadRaises, had the download error been swallowed.
DownloadRaises_GoesOn(r, e) ==
    /\ pc[r] = "download"
    /\ calls' = Put(calls, r, Append(calls[r], "download"))
    /\ raised' = Put(raised, r, <<[exc |-> e, at |-> "download"]>>)
    /\ pc' = Put(pc, r, "recognize")
    /\ UNCHANGED <<static, fs, data, streams,
                   audio_stream, temp_file_path, scan, response,
                   cleanup_error>>

\* Lines 108-110: audio_stream.download raises e.
DownloadRaises(r, e) ==
    /\ pc[r] = "download"
    /\ calls' = Put(calls, r, Append(calls[r], "download"))
    /\ Raise(r, e, "download")
    /\ UNCHANGED <<static, fs, data, streams,
                   audio_stream, temp_file_path, scan, cleanup_error>>

\* Lines 114-133: recognize_by_file returns the string s; json.loads
\* parses it (JSONDecodeError when it is not JSON) and the status code
\* decides the response.
RecognizeReturns(r, s) ==
    /\ pc[r] = "recognize"
    /\ calls' = Put(calls, r, Append(calls[r], "recognize"))
    /\ scan' = Put(scan, r, <<s>>)
    /\ IF s.json
       THEN /\ response' = Put(response, r, ScanResponse(s))
            /\ raised' = raised
            /\ pc' = Put(pc, r, "finally")
       ELSE Raise(r, Exc("JSONDecodeError", 0), "parse")
    /\ UNCHANGED <<static, fs, data, streams,
                   audio_stream, temp_file_path, cleanup_error>>

\* Line 114: recognize_by_file raises e.
RecognizeRaises(r, e) ==
    /\ pc[r] = "recognize"
    /\ calls' = Put(calls, r, Append(calls[r], "recognize"))
    /\ Raise(r, e, "recognize")
    /\ UNCHANGED <<static, fs, data, streams,
                   audio_stream, temp_file_path, scan, cleanup_error>>

\* temp_file_path and os.path.exists(temp_file_path)
TempFileExists(r) == temp_file_path[r] # 0 /\ fs[temp_file_path[r]] # 0

\* Lines 166-167: the finally block with nothing to remove.
FinallyNoFile(r) ==
    /\ pc[r] = "finally"
    /\ ~TempFileExists(r)
    /\ pc' = Put(pc, r, "done")
    /\ UNCHANGED <<static, fs, data, streams,
                   audio_stream, temp_file_path, calls, raised, scan,
                   response, cleanup_error>>

\* FinallyRemove, had the finally block not removed the file.
FinallyRemove_Keeps(r) ==
    /\ pc[r] = "finally"
    /\ TempFileExists(r)
    /\ pc' = Put(pc, r, "done")
    /\ UNCHANGED <<static, fs, data, streams,
                   audio_stream, temp_file_path, calls, raised, scan,
                   response, cleanup_error>>

\* Lines 167-170: os.remove(temp_file_path) removes the file.
FinallyRemove(r) ==
    /\ pc[r] = "finally"
    /\ TempFileExists(r)
    /\ fs' = [fs EXCEPT ![temp_file_path[r]] = 0]
    /\ pc' = Put(pc, r, "done")
    /\ UNCHANGED <<static, data, streams, audio_stream,
                   temp_file_path, calls, raised, scan, response,
                   cleanup_error>>

\* Lines 171-172: os.remove raises; the error is logged and swallowed.
FinallyRemoveFails(r) ==
    /\ pc[r] = "finally"
    /\ TempFileExists(r)
    /\ cleanup_error' = Put(cleanup_error, r, TRUE)
    /\ pc' = Put(pc, r, "done")
    /\ UNCHANGED <<static, fs, data, streams,
                   audio_stream, temp_file_path, calls, raised, scan,
                   response>>

\* The response is sent and the request's locals are gone; a file the
\* request left behind stays in the directory.
Respond(r) ==
    /\ pc[r] = "done"
    /\ pc' = Put(pc, r, "idle")
    /\ data' = Put(data, r, "null")
    /\ streams' = Put(streams, r, {})
    /\ audio_stream' = Put(audio_stream, r, "none")
    /\ temp_file_path' = Put(temp_file_path, r, 0)
    /\ calls' = Put(calls, r, << >>)
    /\ raised' = Put(raised, r, << >>)
    /\ scan' = Put(scan, r, << >>)
    /\ response' = Put(response, r, NoResponse)
    /\ cleanup_error' = Put(cleanup_error, r, FALSE)
    /\ fs' = [p \in Paths |-> IF fs[p] = r THEN -1 ELSE fs[p]]
    /\ UNCHANGED static

\* A single synchronous worker: a request is taken when none is in flight.
NoneInFlight == \A q \in Requests : pc[q] = "idle"

Handle(r) ==
    \/ NoneInFlight /\ \E d \in Bodies : Receive(r, d)
    \/ \E s \in SUBSET AudioStreams : ExtractReturns(r, s)
    \/ \E e \in Exceptions : ExtractRaises(r, e)
    \/ Fallback(r)
    \/ \E p \in Paths : CreateTemp(r, p)
    \/ CreateTempRaises(r)
    \/ DownloadReturns(r)
    \/ \E e \in Exceptions : DownloadRaises(r, e)
    \/ \E s \in ScanStrings : RecognizeReturns(r, s)
    \/ \E e \in Exceptions : RecognizeRaises(r, e)
    \/ FinallyNoFile(r)
    \/ FinallyRemove(r)
    \/ FinallyRemoveFails(r)
    \/ Respond(r)

Next == \E r \in Requests : Handle(r)

Spec == Init /\ [][Next]_vars

----------------------------------------------------------------------------
(* Threaded workers: any number of requests in flight at once.  The        *)
(* requests carry a well-formed URL and the collaborators' outcomes are    *)
(* one per exit path of the handler.                                       *)

ConfiguredInit ==
    /\ acr_config = [host |-> TRUE, access_key |-> TRUE, access_secret |-> TRUE]
    /\ acr_recognizer = "client"
    /\ InitRequests
    /\ mapped = << >>

InitConc == ConfiguredInit /\ acr_match = EmptyMatch

NoResultDocument ==
    [json |-> TRUE, status |-> <<[code |-> 1001, msg |-> <<(<<"No result">>)>>]>>,
     music |-> << >>]

HandleConc(r) ==
    \/ Receive(r, "url_ok")
    \/ \E s \in {{"a128"}, {}} : ExtractReturns(r, s)
    \/ ExtractRaises(r, Exc("VideoPrivate", 0))
    \/ Fallback(r)
    \/ \E p \in Paths : CreateTemp(r, p)
    \/ CreateTempRaises(r)
    \/ DownloadReturns(r)
    \/ DownloadRaises(r, Exc("HTTPError", 429))
    \/ RecognizeReturns(r, NoResultDocument)
    \/ RecognizeRaises(r, Exc("OSError", 0))
    \/ FinallyNoFile(r)
    \/ FinallyRemove(r)
    \/ FinallyRemoveFails(r)
    \/ Respond(r)

NextConc == \E r \in Requests : HandleConc(r)

SpecConc == InitConc /\ [][NextConc]_vars

----------------------------------------------------------------------------
(* The mapper alone, over every raw match.                                 *)

InitMap == ConfiguredInit /\ acr_match \in RawMatches

\* matches = [map_acr_match_to_soundtrace_format(music_item) ...]
MapMatch ==
    /\ mapped = << >>
    /\ mapped' = <<map_acr_match_to_soundtrace_format(acr_match)>>
    /\ UNCHANGED <<acr_config, acr_recognizer, acr_match, fs, reqvars>>

NextMap == MapMatch

SpecMap == InitMap /\ [][NextMap]_vars

----------------------------------------------------------------------------
(* Properties                                                              *)

Done(r) == pc[r] = "done"
Decided(r) == pc[r] \in {"finally", "done"}
HasUrl(r) == data[r] \in {"url_ok", "url_bad"}
HttpSteps == <<"extract", "download", "recognize">>
CreatedFile(r) == temp_file_path[r] # 0

\* C1 (as stated): once a request that created a temporary file has
\* completed, the file it created is absent from the filesystem, on every
\* exit path.
C1_FileAbsentAfterRequest ==
    \A r \in Requests :
        Done(r) /\ CreatedFile(r) => fs[temp_file_path[r]] # r

\* C1 (amended): once a request that created a temporary file has
\* completed, on every exit path the file is absent unless os.remove itself
\* raised; then the error was logged and the file is still there.
C1_FileAbsentUnlessRemoveFailed ==
    \A r \in Requests :
        Done(r) /\ CreatedFile(r) =>
            (fs[temp_file_path[r]] # r <=> ~cleanup_error[r])

\* C1 witness: a request whose exception left the handler after the file
\* was created has completed and its file is gone.
C1_Witness ==
    \E r \in Requests :
        /\ Done(r) /\ CreatedFile(r) /\ ~cleanup_error[r]
        /\ response[r].by = "flask"
        /\ fs[temp_file_path[r]] = 0

\* C2: with acr_recognizer None, every call carrying a url is answered 503,
\* and nothing is extracted, downloaded or created for it.
C2_Unconfigured503 ==
    \A r \in Requests :
        acr_recognizer = "none" /\ HasUrl(r) /\ Done(r) =>
            /\ response[r].status = 503
            /\ calls[r] = << >>
            /\ ~CreatedFile(r)

\* C3: a request whose url does not match the URL grammar is answered 400
\* and the Media Extraction Client is never invoked for it.
C3_InvalidUrl400 ==
    \A r \in Requests :
        acr_recognizer = "client" /\ data[r] = "url_bad" =>
            /\ calls[r] = << >>
            /\ Done(r) => response[r].status = 400

\* C4: every request ends with one outcome built by the handler itself
\* (Success, EmptyResult, or a Failure body with an error message); no
\* exception escapes the handler.
C4_HandlerBuildsOutcome ==
    \A r \in Requests :
        Done(r) /\ HasUrl(r) =>
            /\ response[r].by = "handler"
            /\ \/ response[r].status = 200 /\ "matches" \in response[r].keys
               \/ response[r].status # 200 /\ "error" \in response[r].keys

\* The recognition document of request r, when one was parsed.
Parsed(r) == scan[r] # << >> /\ scan[r][1].json /\ scan[r][1].status # << >>
UpstreamCode(r) == scan[r][1].status[1].code
UpstreamMsg(r) == scan[r][1].status[1].msg

\* C5: a recognition response with status code 1001 gives HTTP 200 with
\* matches [] and acrCode 1001, never an error.
C5_NoResultIs200 ==
    \A r \in Requests :
        Parsed(r) /\ UpstreamCode(r) = 1001 =>
            /\ response[r].by = "handler"
            /\ response[r].status = 200
            /\ "error" \notin response[r].keys
            /\ "matches" \in response[r].keys
            /\ response[r].matches = << >>
            /\ response[r].acrCode = 1001

\* C5 witness: a completed request whose recognition answered 1001.
C5_Witness ==
    \E r \in Requests :
        Done(r) /\ Parsed(r) /\ UpstreamCode(r) = 1001
            /\ response[r].status = 200

\* C6: a recognition response with a status code other than 0 and 1001
\* gives HTTP 500 carrying that code as acrCode and the upstream message as
\* acrResponse, with matches empty.
C6_AcrErrorPassedThrough ==
    \A r \in Requests :
        Parsed(r) /\ UpstreamCode(r) \notin {0, 1001} =>
            /\ response[r].by = "handler"
            /\ response[r].status = 500
            /\ {"matches", "acrCode", "acrResponse"} \subseteq response[r].keys
            /\ response[r].acrCode = UpstreamCode(r)
            /\ UpstreamMsg(r) # << >> =>
                   response[r].acrResponse = UpstreamMsg(r)[1]
            /\ response[r].matches = << >>

\* C6 witness: a completed request whose recognition answered code 3003
\* with a message.
C6_Witness ==
    \E r \in Requests :
        Done(r) /\ Parsed(r) /\ UpstreamCode(r) = 3003
            /\ UpstreamMsg(r) = <<(<<"No result">>)>>
            /\ response[r].acrCode = 3003

\* The status the claim C7 gives a failure of extraction or download.
ClaimedStatus(e) ==
    IF e.cls \in {"VideoUnavailable", "VideoPrivate", "AgeRestrictedError",
                  "MembersOnly", "LiveStreamError", "RecordingUnavailable"}
    THEN 404
    ELSE IF e.cls = "HTTPError" /\ e.code = 429 THEN 429
    ELSE IF e.cls = "HTTPError" /\ e.code \in {400, 403} THEN 502
    ELSE 500

FailedAt(r, stages) == raised[r] # << >> /\ raised[r][1].at \in stages
NoAudio(r) ==
    Decided(r) /\ raised[r] = << >> /\ calls[r] = <<"extract">>
        /\ audio_stream[r] = "none"

\* C7: the HTTP status of a failed extraction or download is fixed by the
\* failure kind: 404 for an inaccessible video or no audio stream, 429 for
\* an upstream 429, 502 for an upstream 400 or 403, 500 for anything else.
C7_StatusByFailureKind ==
    \A r \in Requests :
        /\ FailedAt(r, {"extract", "download"}) =>
               response[r].status = ClaimedStatus(raised[r][1].exc)
        /\ NoAudio(r) => response[r].status = 404

\* C7 witness: a completed request whose download was rate limited.
C7_Witness ==
    \E r \in Requests :
        Done(r) /\ FailedAt(r, {"download"})
            /\ raised[r][1].exc = Exc("HTTPError", 429)
            /\ response[r].status = 429

\* Whether the raw match carries the identifier at all.
HasSpotifyTrackId(m) ==
    /\ m.external_metadata # << >>
    /\ m.external_metadata[1].spotify # << >>
    /\ m.external_metadata[1].spotify[1].track # << >>
    /\ m.external_metadata[1].spotify[1].track[1].id # << >>
HasYoutubeVideoId(m) ==
    /\ m.external_metadata # << >>
    /\ m.external_metadata[1].youtube # << >>
    /\ m.external_metadata[1].youtube[1].vid # << >>

\* C8: the mapper is total over well-formed raw matches: every missing
\* field takes its documented default (so a match missing every optional
\* field maps to a complete record of defaults), and each platform link is
\* null exactly when that platform's identifier is absent.
C8_MapperDefaultsAndLinks ==
    mapped # << >> =>
        LET m == mapped[1] IN
        /\ acr_match.title = << >> => m.title = "Unknown Title"
        /\ acr_match.artists = << >> => m.artist = <<"Unknown Artist">>
        /\ acr_match.album = << >> => m.album = "Unknown Album"
        /\ acr_match.release_date = << >> => m.releaseDate = "N/A"
        /\ acr_match.score = << >> => m.matchConfidence = 0
        /\ m.platformLinks.spotify = << >> <=> ~HasSpotifyTrackId(acr_match)
        /\ m.platformLinks.youtube = << >> <=> ~HasYoutubeVideoId(acr_match)

\* C8 witness: the raw match with no field at all has been mapped.
C8_Witness ==
    /\ mapped # << >>
    /\ acr_match = EmptyMatch
    /\ mapped[1].title = "Unknown Title"
    /\ mapped[1].platformLinks = [spotify |-> << >>, youtube |-> << >>]

\* Request r is between the creation of its file and its cleanup.
HoldsFile(r) ==
    pc[r] \in {"download", "recognize", "finally"} /\ CreatedFile(r)

\* C9: no two in-flight requests hold the same temporary path between
\* creation and cleanup, and no cleanup removes another in-flight request's
\* file: the file of every request that holds one is there and is its own.
C9_PathsNeverShared ==
    \A r \in Requests :
        HoldsFile(r) =>
            /\ fs[temp_file_path[r]] = r
            /\ \A q \in Requests \ {r} :
                   HoldsFile(q) => temp_file_path[q] # temp_file_path[r]

\* C9 witness: one request has removed its file while another, created
\* meanwhile, still holds its own.
C9_Witness ==
    \E r, q \in Requests :
        /\ r # q
        /\ HoldsFile(r)
        /\ Done(q) /\ CreatedFile(q) /\ fs[temp_file_path[q]] = 0

IsPrefix(s, t) == Len(s) <= Len(t) /\ \A i \in 1..Len(s) : s[i] = t[i]
Called(r, c) == \E i \in 1..Len(calls[r]) : calls[r][i] = c

\* C10: the external calls of a request are a prefix of (extract,
\* download, recognize), each made at most once; download only after a
\* stream was selected, recognition only after the download returned; and
\* after a failed call no further call is made.
C10_CallsArePrefix ==
    \A r \in Requests :
        /\ IsPrefix(calls[r], HttpSteps)
        /\ Called(r, "download") => audio_stream[r] # "none"
        /\ Called(r, "recognize") => ~FailedAt(r, {"extract", "tmpfile", "download"})
        /\ FailedAt(r, {"extract", "download", "recognize"}) =>
               /\ Decided(r)
               /\ calls[r][Len(calls[r])] = raised[r][1].at
        /\ FailedAt(r, {"tmpfile"}) => calls[r] = <<"extract">>

\* C10 witness: a completed request whose download failed made two calls.
C10_Witness ==
    \E r \in Requests :
        Done(r) /\ FailedAt(r, {"download"})
            /\ calls[r] = <<"extract", "download">>

====
